---- MODULE Spec2Model ----
(***************************************************************************)
(* Model of the legacy-to-unified alert migration core                      *)
(* (pkg/services/ngalert/migration/alert_rule.go).                          *)
(*                                                                          *)
(* Strings that are cut or case-folded (alert names, rule titles) are       *)
(* sequences of one-character strings; strings that are only compared      *)
(* (states, messages, field names) are TLA+ strings.                        *)
(***************************************************************************)
EXTENDS Integers, Sequences, FiniteSets, TLC

VARIABLES
    caseInsensitive,      \* om.dialect.SupportEngine(): the store compares titles case-insensitively
    orgMigration,         \* per organization: [alertRuleTitleDedup, silences]
    nextUID,              \* state of the UID allocator shared by the whole migration
    clock,                \* the wall clock time.Now() reads
    migrated,             \* per organization: the migrateAlert calls made, each with its input and result
    call,                 \* the function call under examination: [fn, arg]
    ret,                  \* <<>> before the call is made, then <<its return value>>
    runner,               \* the SceneQueryRunner: isActive, its _subs, _querySub, _containerWidth, state
    tasks                 \* what the runner has in flight: runs awaiting their data source,
                          \* live subscriptions, pending timers, the request id counter

----------------------------------------------------------------------------
(* Bounds of the model *)

\* legacy frequencies range over -MaxFreq..MaxFreq
MaxFreq == 60

\* lists of more than one query hold at most MaxQueries queries
MaxQueries == 2

\* store.AlertDefinitionMaxTitleLength, scaled down (190 in the store package)
AlertDefinitionMaxTitleLength == 9

\* notification target lists hold at most MaxNotifications targets
MaxNotifications == 3

\* attempts deduplicate makes before it gives up
MaxAttempts == 2

\* migrateAlert calls in one migration run, all organizations together
MaxAlerts == 3

\* the clock runs from 0 to MaxClock
MaxClock == 1

\* query runs a scene query runner starts
MaxRequests == 3

\* setTimeout callbacks a scene query runner has pending at a time
MaxTimers == 2

----------------------------------------------------------------------------
(* ruleAdjustInterval *)

baseFreq == 10

\* faulty variant: no floor of one granularity unit
ruleAdjustInterval_NoFloor(freq) ==
    IF freq <= baseFreq THEN freq ELSE freq - (freq % baseFreq)

ruleAdjustInterval(freq) ==
    IF freq <= baseFreq THEN 10 ELSE freq - (freq % baseFreq)

----------------------------------------------------------------------------
(* State translators.  Each returns the unified state and whether a        *)
(* warning was logged.                                                      *)

\* legacymodels.NoDataOption / ExecutionErrorOption values
NoDataSetOK == "ok"
NoDataSetNoData == "no_data"
NoDataSetAlerting == "alerting"
NoDataKeepState == "keep_state"
ExecutionErrorSetAlerting == "alerting"
ExecutionErrorKeepState == "keep_state"
ExecutionErrorSetOk == "ok"

\* faulty variant: keep_state translated to OK
transNoData_KeepIsOK(s) ==
    CASE s = NoDataSetOK -> [state |-> "OK", warn |-> FALSE]
      [] s = "" \/ s = NoDataSetNoData -> [state |-> "NoData", warn |-> FALSE]
      [] s = NoDataSetAlerting -> [state |-> "Alerting", warn |-> FALSE]
      [] s = NoDataKeepState -> [state |-> "OK", warn |-> FALSE]
      [] OTHER -> [state |-> "NoData", warn |-> TRUE]

transNoData(s) ==
    CASE s = NoDataSetOK -> [state |-> "OK", warn |-> FALSE]
      [] s = "" \/ s = NoDataSetNoData -> [state |-> "NoData", warn |-> FALSE]
      [] s = NoDataSetAlerting -> [state |-> "Alerting", warn |-> FALSE]
      [] s = NoDataKeepState -> [state |-> "NoData", warn |-> FALSE]
      [] OTHER -> [state |-> "NoData", warn |-> TRUE]

transExecErr(s) ==
    CASE s = "" \/ s = ExecutionErrorSetAlerting -> [state |-> "Alerting", warn |-> FALSE]
      [] s = ExecutionErrorKeepState -> [state |-> "Error", warn |-> FALSE]
      [] s = ExecutionErrorSetOk -> [state |-> "OK", warn |-> FALSE]
      [] OTHER -> [state |-> "Error", warn |-> TRUE]

----------------------------------------------------------------------------
(* Query repair engine.                                                     *)
(* A query model is raw JSON: either not a JSON object (valid = FALSE) or  *)
(* an object, held as the map json.Unmarshal yields: field name -> raw     *)
(* value, Absent for a key the object does not have.                        *)

Absent == "<absent>"

expressionDatasourceUID == "__expr__"
TargetFullModelField == "targetFull"
TargetModelField == "target"

FieldNames == {"hide", TargetModelField, TargetFullModelField, "instant", "range", "datasource", "refId"}

delete(m, k) == [m EXCEPT ![k] = Absent]

\* json.Unmarshal(raw, &b) for b a bool holding cur: null leaves b as it is
jsonUnmarshalBool(raw, cur) ==
    CASE raw = "true"  -> [err |-> FALSE, val |-> TRUE]
      [] raw = "false" -> [err |-> FALSE, val |-> FALSE]
      [] raw = "null"  -> [err |-> FALSE, val |-> cur]
      [] OTHER         -> [err |-> TRUE, val |-> cur]

\* json.Unmarshal(ds, &datasource) for struct{ Type string `json:"type"` }
jsonUnmarshalDatasource(raw) ==
    CASE raw = "{type:prometheus}" -> [err |-> FALSE, Type |-> "prometheus"]
      [] raw = "{type:graphite}"   -> [err |-> FALSE, Type |-> "graphite"]
      [] raw = "{}"                -> [err |-> FALSE, Type |-> ""]
      [] raw = "null"              -> [err |-> FALSE, Type |-> ""]
      [] OTHER                     -> [err |-> TRUE, Type |-> ""]

isPrometheusQuery(queryData) ==
    IF queryData["datasource"] = Absent
    THEN [is |-> FALSE, err |-> TRUE]
    ELSE LET datasource == jsonUnmarshalDatasource(queryData["datasource"])
         IN  IF datasource.err THEN [is |-> FALSE, err |-> TRUE]
             ELSE IF datasource.Type = "" THEN [is |-> FALSE, err |-> TRUE]
             ELSE [is |-> datasource.Type = "prometheus", err |-> FALSE]

\* faulty variant: targetFull copied but not deleted
fixGraphiteReferencedSubQueries_KeepFull(queryData) ==
    IF queryData[TargetFullModelField] # Absent
    THEN [queryData EXCEPT ![TargetModelField] = queryData[TargetFullModelField]]
    ELSE queryData

fixGraphiteReferencedSubQueries(queryData) ==
    LET fullQuery == queryData[TargetFullModelField]
    IN  IF fullQuery # Absent
        THEN [delete(queryData, TargetFullModelField) EXCEPT ![TargetModelField] = fullQuery]
        ELSE queryData

\* faulty variant: the datasource type is not looked at
fixPrometheusBothTypeQuery_AnyDatasource(queryData) ==
    LET i == IF queryData["instant"] = Absent THEN [err |-> FALSE, val |-> FALSE]
             ELSE jsonUnmarshalBool(queryData["instant"], FALSE)
        r == IF queryData["range"] = Absent THEN [err |-> FALSE, val |-> FALSE]
             ELSE jsonUnmarshalBool(queryData["range"], FALSE)
    IN  IF i.err \/ r.err \/ ~i.val \/ ~r.val
        THEN [queryData |-> queryData, logs |-> <<>>]
        ELSE [queryData |-> [queryData EXCEPT !["instant"] = "false"], logs |-> <<"warn: converting to range">>]

\* faulty variant: a parse failure is logged whatever the datasource
fixPrometheusBothTypeQuery_AlwaysLog(queryData) ==
    LET i == IF queryData["instant"] = Absent THEN [err |-> FALSE, val |-> FALSE]
             ELSE jsonUnmarshalBool(queryData["instant"], FALSE)
        r == IF queryData["range"] = Absent THEN [err |-> FALSE, val |-> FALSE]
             ELSE jsonUnmarshalBool(queryData["range"], FALSE)
        prom == isPrometheusQuery(queryData)
    IN  IF i.err THEN [queryData |-> queryData, logs |-> <<"info: failed to parse instant">>]
        ELSE IF r.err THEN [queryData |-> queryData, logs |-> <<"info: failed to parse range">>]
        ELSE IF ~i.val \/ ~r.val THEN [queryData |-> queryData, logs |-> <<>>]
        ELSE IF prom.err THEN [queryData |-> queryData, logs |-> <<"info: unable to convert">>]
        ELSE IF ~prom.is THEN [queryData |-> queryData, logs |-> <<>>]
        ELSE [queryData |-> [queryData EXCEPT !["instant"] = "false"],
              logs |-> <<"warn: converting to range">>]

\* Returns the repaired map and the log entries written.
fixPrometheusBothTypeQuery(queryData) ==
    LET instantRaw == queryData["instant"]
        rangeRaw == queryData["range"]
        i == IF instantRaw = Absent THEN [err |-> FALSE, val |-> FALSE]
             ELSE jsonUnmarshalBool(instantRaw, FALSE)
        r == IF rangeRaw = Absent THEN [err |-> FALSE, val |-> FALSE]
             ELSE jsonUnmarshalBool(rangeRaw, FALSE)
        prom == isPrometheusQuery(queryData)
    IN  IF i.err
        THEN [queryData |-> queryData,
              logs |-> IF prom.is THEN <<"info: failed to parse instant">> ELSE <<>>]
        ELSE IF r.err
        THEN [queryData |-> queryData,
              logs |-> IF prom.is THEN <<"info: failed to parse range">> ELSE <<>>]
        ELSE IF ~i.val \/ ~r.val
        THEN [queryData |-> queryData, logs |-> <<>>]
        ELSE IF prom.err
        THEN [queryData |-> queryData, logs |-> <<"info: unable to convert">>]
        ELSE IF ~prom.is
        THEN [queryData |-> queryData, logs |-> <<>>]
        ELSE [queryData |-> [queryData EXCEPT !["instant"] = "false"],
              logs |-> <<"warn: converting to range">>]

\* json.Unmarshal(d.Model, &fixedData) for map[string]json.RawMessage
jsonUnmarshalModel(model) ==
    [err |-> ~model.valid, fixedData |-> model.fields]

\* json.Marshal(fixedData): every value is a raw message taken from parsed
\* JSON or the literal false, so encoding does not fail
jsonMarshalModel(fixedData) ==
    [err |-> FALSE, model |-> [valid |-> TRUE, fields |-> fixedData]]

\* faulty variant: a model that does not parse is passed on
repairQuery_IgnoreParseError(d) ==
    LET parsed == jsonUnmarshalModel(d.Model)
        noHide == delete(parsed.fixedData, "hide")
        graphite == fixGraphiteReferencedSubQueries(noHide)
        prom == fixPrometheusBothTypeQuery(graphite)
        updatedModel == jsonMarshalModel(prom.queryData)
    IN  IF parsed.err THEN [err |-> FALSE, d |-> d, logs |-> <<>>]
        ELSE [err |-> FALSE, d |-> [d EXCEPT !.Model = updatedModel.model], logs |-> prom.logs]

\* faulty variant: the hide field is not removed
repairQuery_KeepHide(d) ==
    LET parsed == jsonUnmarshalModel(d.Model)
        graphite == fixGraphiteReferencedSubQueries(parsed.fixedData)
        prom == fixPrometheusBothTypeQuery(graphite)
        updatedModel == jsonMarshalModel(prom.queryData)
    IN  IF parsed.err THEN [err |-> TRUE, d |-> d, logs |-> <<>>]
        ELSE [err |-> FALSE, d |-> [d EXCEPT !.Model = updatedModel.model], logs |-> prom.logs]

\* One iteration of the loop over data for a non-expression query d.
repairQuery(d) ==
    LET parsed == jsonUnmarshalModel(d.Model)
        noHide == delete(parsed.fixedData, "hide")
        graphite == fixGraphiteReferencedSubQueries(noHide)
        prom == fixPrometheusBothTypeQuery(graphite)
        updatedModel == jsonMarshalModel(prom.queryData)
    IN  IF parsed.err THEN [err |-> TRUE, d |-> d, logs |-> <<>>]
        ELSE IF updatedModel.err THEN [err |-> TRUE, d |-> d, logs |-> prom.logs]
        ELSE [err |-> FALSE, d |-> [d EXCEPT !.Model = updatedModel.model], logs |-> prom.logs]

\* faulty variant: expression queries are repaired like the others
isExpressionQuery_Never(d) == FALSE

\* line 142: queries that are expressions are skipped
isExpressionQuery(d) == d.DatasourceUID = expressionDatasourceUID

RECURSIVE migrateQueriesFrom(_, _, _, _)
migrateQueriesFrom(data, i, result, logs) ==
    IF i > Len(data)
    THEN [err |-> FALSE, data |-> result, logs |-> logs]
    ELSE IF isExpressionQuery(data[i])
    THEN migrateQueriesFrom(data, i + 1, Append(result, data[i]), logs)
    ELSE LET fixed == repairQuery(data[i])
         IN  IF fixed.err
             THEN [err |-> TRUE, data |-> <<>>, logs |-> logs \o fixed.logs]
             ELSE migrateQueriesFrom(data, i + 1, Append(result, fixed.d), logs \o fixed.logs)

migrateAlertRuleQueries(data) == migrateQueriesFrom(data, 1, <<>>, <<>>)

----------------------------------------------------------------------------
(* Titles: truncation and the per-folder deduplicator.                      *)

Orgs == {1, 2}
Folders == {"f1", "f2"}

\* faulty variant: no truncation
truncateRuleName_Identity(daName) == daName

\* faulty variant: truncation one character short
truncateRuleName_OneShort(daName) ==
    IF Len(daName) > AlertDefinitionMaxTitleLength
    THEN SubSeq(daName, 1, AlertDefinitionMaxTitleLength - 1)
    ELSE daName

truncateRuleName(daName) ==
    IF Len(daName) > AlertDefinitionMaxTitleLength
    THEN SubSeq(daName, 1, AlertDefinitionMaxTitleLength)
    ELSE daName

\* case folding of one character, and of a name
ToLowerChar(c) ==
    CASE c = "A" -> "a"
      [] c = "B" -> "b"
      [] c = "C" -> "c"
      [] c = "P" -> "p"
      [] c = "U" -> "u"
      [] OTHER -> c

ToLower(name) == [i \in 1..Len(name) |-> ToLowerChar(name[i])]

\* the deduplicator made on first use of a folder (lines 77-81)
newDeduplicator(insensitive) ==
    [set |-> {}, caseInsensitive |-> insensitive, maxLen |-> AlertDefinitionMaxTitleLength]

\* contains(name): membership, after case folding when the deduplicator is
\* case-insensitive
contains(d, name) ==
    IF d.caseInsensitive
    THEN \E n \in d.set : ToLower(n) = ToLower(name)
    ELSE name \in d.set

\* add(name): records the name as claimed
add(d, name) == [d EXCEPT !.set = @ \cup {name}]

\* the i-th disambiguating suffix
Suffix(i) == <<"_", ToString(i)>>

\* name with the i-th suffix, the base shortened to keep within maxLen
Candidate(d, name, i) ==
    LET room == d.maxLen - Len(Suffix(i))
        base == IF Len(name) > room THEN SubSeq(name, 1, room) ELSE name
    IN  base \o Suffix(i)

\* deduplicate(name): the possible results.  Each attempt appends a suffix
\* and re-checks; a free candidate is returned, and the attempts can run
\* out only on candidates that are claimed.
deduplicate(d, name) ==
    LET candidates == {Candidate(d, name, i) : i \in 1..MaxAttempts}
    IN  {[err |-> FALSE, name |-> c] : c \in {x \in candidates : ~contains(d, x)}}
            \cup (IF \E c \in candidates : contains(d, c)
                  THEN {[err |-> TRUE, name |-> <<>>]}
                  ELSE {})

\* lines 84-92: the title for da.Name given the folder's deduplicator; the
\* possible [err, name, renamed]
\* faulty variant: a claimed name is not deduplicated
chooseTitle_NoDedup(dedupSet, daName) ==
    {[err |-> FALSE, name |-> truncateRuleName(daName), renamed |-> FALSE]}

chooseTitle(dedupSet, daName) ==
    LET name == truncateRuleName(daName)
    IN  IF contains(dedupSet, name)
        THEN {[err |-> r.err, name |-> r.name, renamed |-> ~r.err] : r \in deduplicate(dedupSet, name)}
        ELSE {[err |-> FALSE, name |-> name, renamed |-> FALSE]}

----------------------------------------------------------------------------
(* Rule assembly.                                                           *)

\* util.GenerateShortUID(): the allocator hands out identifiers never
\* handed out before
GenerateShortUID(next) == [uid |-> next, next |-> next + 1]

\* getLabelForSilenceMatching(ruleUID): the reserved routing label
getLabelForSilenceMatching(ruleUID) == [n |-> "rule_uid", v |-> ToString(ruleUID)]

TagKeys == {"team", "rule_uid"}

\* json.Unmarshal(da.Settings, &parsedSettings)
jsonUnmarshalSettings(settings) == [err |-> ~settings.valid, parsedSettings |-> settings.parsed]

\* tag values are held as the strings MustString yields
addMigrationInfo(da, dashboardUID) ==
    [lbls |-> da.ParsedSettings.AlertRuleTags,
     annotations |-> [k \in {"__dashboardUid__", "__panelId__", "__alertId__", "message"} |->
                        CASE k = "__dashboardUid__" -> dashboardUID
                          [] k = "__panelId__" -> ToString(da.PanelId)
                          [] k = "__alertId__" -> ToString(da.Id)
                          [] OTHER -> Absent]]

\* faulty variant: the numeric id is preferred to the UID
extractChannelIDs_IdFirst(parsedSettings) ==
    LET keep == SelectSeq(parsedSettings.Notifications, LAMBDA ui : ui.UID # "" \/ ui.ID > 0)
    IN  [i \in 1..Len(keep) |->
            IF keep[i].ID > 0 THEN [UID |-> "", ID |-> keep[i].ID]
            ELSE [UID |-> keep[i].UID, ID |-> 0]]

\* a channel reference is [UID, ID]: a UID with ID 0, or an id with UID ""
extractChannelIDs(parsedSettings) ==
    LET keep == SelectSeq(parsedSettings.Notifications, LAMBDA ui : ui.UID # "" \/ ui.ID > 0)
    IN  [i \in 1..Len(keep) |->
            IF keep[i].UID # "" THEN [UID |-> keep[i].UID, ID |-> 0]
            ELSE [UID |-> "", ID |-> keep[i].ID]]

\* faulty variant: an empty message gets no annotation
addMessage_SkipEmpty(annotations, da) ==
    IF da.Message = "" THEN annotations ELSE [annotations EXCEPT !["message"] = da.Message]

\* line 67: annotations["message"] = da.Message
addMessage(annotations, da) == [annotations EXCEPT !["message"] = da.Message]

\* faulty variant: every state but "ok" counts as paused
isPaused_NotOK(da) == da.State # "ok"

\* lines 95-98
isPaused(da) == da.State = "paused"

\* faulty variant: a legacy tag with the key of the routing label is kept
addRoutingLabel_KeepTag(lbls, uid) ==
    LET l == getLabelForSilenceMatching(uid)
    IN  IF lbls[l.n] = Absent THEN [lbls EXCEPT ![l.n] = l.v] ELSE lbls

\* lines 122-124: the label for routing and silences
addRoutingLabel(lbls, uid) ==
    LET l == getLabelForSilenceMatching(uid)
    IN  [lbls EXCEPT ![l.n] = l.v]

\* lines 66-67 and 95-124: the rule record, uid the result of
\* util.GenerateShortUID() and now that of time.Now().UTC()
\* faulty variant: the UID is taken from the panel id
assembleRule_UIDFromPanelId(da, dash, folderUID, cond, data, name, uid, now) ==
    LET info == addMigrationInfo(da, dash.UID)
    IN  [OrgID |-> da.OrgId, Title |-> name, UID |-> da.PanelId, Condition |-> cond.Condition,
         Data |-> data, IntervalSeconds |-> ruleAdjustInterval(da.Frequency), Version |-> 1,
         NamespaceUID |-> folderUID, DashboardUID |-> dash.UID, PanelID |-> da.PanelId,
         RuleGroup |-> <<dash.Title, da.PanelId>>, For |-> da.For, Updated |-> now,
         Annotations |-> addMessage(info.annotations, da),
         Labels |-> addRoutingLabel(info.lbls, da.PanelId),
         RuleGroupIndex |-> 1, IsPaused |-> isPaused(da),
         NoDataState |-> transNoData(da.ParsedSettings.NoDataState).state,
         ExecErrState |-> transExecErr(da.ParsedSettings.ExecutionErrorState).state]

assembleRule(da, dash, folderUID, cond, data, name, uid, now) ==
    LET info == addMigrationInfo(da, dash.UID)
    IN  [OrgID |-> da.OrgId, Title |-> name, UID |-> uid, Condition |-> cond.Condition,
         Data |-> data, IntervalSeconds |-> ruleAdjustInterval(da.Frequency), Version |-> 1,
         NamespaceUID |-> folderUID, DashboardUID |-> dash.UID, PanelID |-> da.PanelId,
         RuleGroup |-> <<dash.Title, da.PanelId>>, For |-> da.For, Updated |-> now,
         Annotations |-> addMessage(info.annotations, da),
         Labels |-> addRoutingLabel(info.lbls, uid),
         RuleGroupIndex |-> 1, IsPaused |-> isPaused(da),
         NoDataState |-> transNoData(da.ParsedSettings.NoDataState).state,
         ExecErrState |-> transExecErr(da.ParsedSettings.ExecutionErrorState).state]

\* addErrorSilence / addNoDataSilence: a silence is made only for the
\* "keep last state" policy, and making it can fail.  The possible
\* [err, silences].
addSilence(silences, keepState, kind, ar) ==
    IF ~keepState
    THEN {[err |-> FALSE, silences |-> silences]}
    ELSE {[err |-> FALSE, silences |-> Append(silences, [kind |-> kind, rule_uid |-> ar.UID])],
          [err |-> TRUE, silences |-> silences]}

addErrorSilence(silences, da, ar) ==
    addSilence(silences, da.ParsedSettings.ExecutionErrorState = ExecutionErrorKeepState, "Error", ar)

addNoDataSilence(silences, da, ar) ==
    addSilence(silences, da.ParsedSettings.NoDataState = NoDataKeepState, "NoData", ar)

\* faulty variant: after a failed Error silence the NoData silence is not tried
addSilences_StopAtFirstFailure(silences, da, ar) ==
    UNION {
        IF e.err
        THEN {[silences |-> e.silences, logs |-> <<"error: silence for Error">>]}
        ELSE {[silences |-> n.silences,
               logs |-> IF n.err THEN <<"error: silence for NoData">> ELSE <<>>]
                : n \in addNoDataSilence(e.silences, da, ar)}
        : e \in addErrorSilence(silences, da, ar)}

\* lines 126-132: both silences are tried, a failure is logged; the possible
\* [silences, logs]
addSilences(silences, da, ar) ==
    UNION {
        {[silences |-> n.silences,
          logs |-> (IF e.err THEN <<"error: silence for Error">> ELSE <<>>)
                    \o (IF n.err THEN <<"error: silence for NoData">> ELSE <<>>)]
            : n \in addNoDataSilence(e.silences, da, ar)}
        : e \in addErrorSilence(silences, da, ar)}

\* lines 76-83: om.alertRuleTitleDedup maps a folder to <<>> while the map
\* has no entry for it and to <<its deduplicator>> afterwards; the entry is
\* made on first use
dedupFor(om, folderUID, insensitive) ==
    IF Len(om.alertRuleTitleDedup[folderUID]) = 1
    THEN om.alertRuleTitleDedup
    ELSE [om.alertRuleTitleDedup EXCEPT ![folderUID] = <<newDeduplicator(insensitive)>>]

\* faulty variant: the assigned name is not recorded
claimName_Skipped(dedupSet, name) == dedupSet

\* line 93: dedupSet.add(name)
claimName(dedupSet, name) == add(dedupSet, name)

NoRule(om, next, err, logs) ==
    [err |-> err, rule |-> <<>>, om |-> om, next |-> next, logs |-> logs]

\* makeAlertRule: the possible [err, rule, om, next, logs]; err is <<>> for
\* nil and the chain of wrapped messages otherwise, rule is <<>> for nil and
\* <<ar>> otherwise, om and next the state the call leaves
makeAlertRule(om, next, now, insensitive, cond, da, dash, folderUID) ==
    LET q == migrateAlertRuleQueries(cond.Data)
        dedups == dedupFor(om, folderUID, insensitive)
        dedupSet == dedups[folderUID][1]
        om1 == [om EXCEPT !.alertRuleTitleDedup = dedups]
    IN  IF q.err
        THEN {NoRule(om, next, <<"failed to migrate alert rule queries">>, q.logs)}
        ELSE UNION {
            IF t.err
            THEN {NoRule(om1, next, <<"failed to deduplicate alert rule name">>, q.logs)}
            ELSE LET claimed == [dedups EXCEPT ![folderUID] = <<claimName(dedupSet, t.name)>>]
                     g == GenerateShortUID(next)
                     ar == assembleRule(da, dash, folderUID, cond, q.data, t.name, g.uid, now)
                     warn == (IF t.renamed THEN <<"warn: duplicate alert rule name">> ELSE <<>>)
                              \o (IF transNoData(da.ParsedSettings.NoDataState).warn
                                  THEN <<"warn: NoData state">> ELSE <<>>)
                              \o (IF transExecErr(da.ParsedSettings.ExecutionErrorState).warn
                                  THEN <<"warn: Error state">> ELSE <<>>)
                 IN  {[err |-> <<>>,
                       rule |-> <<ar>>,
                       om |-> [alertRuleTitleDedup |-> claimed, silences |-> x.silences],
                       next |-> g.next,
                       logs |-> q.logs \o warn \o x.logs]
                        : x \in addSilences(om.silences, da, ar)}
            : t \in chooseTitle(dedupSet, da.Name)}

Failed(om, next, err, logs) ==
    [err |-> err, rule |-> <<>>, channels |-> <<>>, om |-> om, next |-> next, logs |-> logs]

\* migrateAlert: the possible [err, rule, channels, om, next, logs]
migrateAlert(om, next, now, insensitive, in) ==
    LET parsed == jsonUnmarshalSettings(in.da.Settings)
    IN  IF parsed.err
        THEN {Failed(om, next, <<"failed to parse settings">>, <<>>)}
        ELSE IF in.cond.err
        THEN {Failed(om, next, <<"failed to transform conditions">>, <<>>)}
        ELSE {IF Len(r.err) > 0
              THEN Failed(r.om, r.next, <<"failed to make alert rule">> \o r.err, r.logs)
              ELSE [err |-> <<>>, rule |-> r.rule, channels |-> extractChannelIDs(parsed.parsedSettings),
                    om |-> r.om, next |-> r.next, logs |-> r.logs]
                : r \in makeAlertRule(om, next, now, insensitive, in.cond, in.da, in.dash, in.f.UID)}

----------------------------------------------------------------------------
(* Input domains of the query repair engine and the translators.          *)

Frequencies == (0 - MaxFreq)..MaxFreq

\* legacy state strings: the known values and some outside the known set
LegacyStates == {"", "ok", "no_data", "alerting", "keep_state", "paused", "Keep_State", "unknown"}

BoolRaw == {Absent, "true", "false", "null", "'yes'"}
DatasourceRaw == {Absent, "'prom'", "{}", "{type:prometheus}", "{type:graphite}"}

FieldMap(hide, target, targetFull, instant, range, datasource) ==
    [k \in FieldNames |->
        CASE k = "hide" -> hide
          [] k = TargetModelField -> target
          [] k = TargetFullModelField -> targetFull
          [] k = "instant" -> instant
          [] k = "range" -> range
          [] k = "datasource" -> datasource
          [] OTHER -> "'A'"]

FieldMaps ==
    {FieldMap(h, t, tf, i, r, ds) :
        h \in {Absent, "true"}, t \in {Absent, "'x'"}, tf \in {Absent, "'x'", "'y'"},
        i \in BoolRaw, r \in BoolRaw, ds \in DatasourceRaw}

MalformedModel == [valid |-> FALSE, fields |-> [k \in FieldNames |-> Absent]]

Models == {[valid |-> TRUE, fields |-> f] : f \in FieldMaps} \cup {MalformedModel}

AllQueries == [DatasourceUID : {expressionDatasourceUID, "ds1"}, Model : Models]

Query(uid, fields) == [DatasourceUID |-> uid, Model |-> [valid |-> TRUE, fields |-> fields]]

\* the queries that lists of more than one query are built from
SmallQueries ==
    { Query("ds1", FieldMap("true", "'x'", "'y'", "true", "true", "{type:prometheus}")),
      Query("ds1", FieldMap(Absent, "'x'", Absent, "true", "true", "{type:graphite}")),
      Query("ds1", FieldMap("true", Absent, "'y'", "'yes'", "true", "{type:prometheus}")),
      Query("ds1", FieldMap(Absent, "'x'", Absent, "true", "true", Absent)),
      Query(expressionDatasourceUID, FieldMap("true", "'x'", "'y'", "true", "true", "{type:prometheus}")),
      [DatasourceUID |-> expressionDatasourceUID, Model |-> MalformedModel],
      [DatasourceUID |-> "ds1", Model |-> MalformedModel] }

QueryLists ==
    {<<q>> : q \in AllQueries}
        \cup UNION {[1..n -> SmallQueries] : n \in 0..MaxQueries}

----------------------------------------------------------------------------
(* The migration run: organizations are migrated side by side, each alert  *)
(* by one migrateAlert call on its organization's orgMigration.            *)

\* the orgMigration a migrateAlert call for org runs on: each organization
\* has its own
\* faulty variant: one orgMigration shared by all organizations
omFor_Shared(org) == 1

omFor(org) == org

NameOf(c) == <<c>>
NameAtMax(c) == [i \in 1..AlertDefinitionMaxTitleLength |-> c]
NameTooLong(c) == [i \in 1..(AlertDefinitionMaxTitleLength + 1) |->
                     IF i <= AlertDefinitionMaxTitleLength THEN "a" ELSE c]

\* legacy alert names: short ones that differ in case only, one of exactly
\* the maximum length, two over-length ones with the same first
\* AlertDefinitionMaxTitleLength characters, one that looks deduplicated
RunNames ==
    {NameOf("a"), NameOf("A"), NameAtMax("a"), NameTooLong("a"), NameTooLong("b"),
     NameOf("a") \o Suffix(1)}

NoTags == [k \in TagKeys |-> Absent]

DefaultSettings ==
    [NoDataState |-> "", ExecutionErrorState |-> "", AlertRuleTags |-> NoTags, Notifications |-> <<>>]

\* notification targets: with a UID, with an id, with both, with neither
NotificationTargets == [UID : {"", "abc"}, ID : {0 - 1, 0, 7}]

NotificationLists == UNION {[1..n -> NotificationTargets] : n \in 0..MaxNotifications}

DashAlert(org, id, name, settingsValid, parsedSettings) ==
    [Id |-> id, OrgId |-> org, PanelId |-> 1, Name |-> name, Message |-> "", Frequency |-> 60,
     For |-> 0, State |-> "ok",
     Settings |-> [valid |-> settingsValid, parsed |-> parsedSettings],
     ParsedSettings |-> parsedSettings]

TheDash == [UID |-> "d1", Title |-> "Dash"]

GoodQueries ==
    << Query("ds1", FieldMap("true", "'x'", "'y'", "true", "true", "{type:prometheus}")) >>

CondOK(data) == [err |-> FALSE, Condition |-> "B", Data |-> data]
CondFailed == [err |-> TRUE, Condition |-> "", Data |-> <<>>]

Input(da, folderUID, cond) == [da |-> da, dash |-> TheDash, f |-> [UID |-> folderUID], cond |-> cond]

\* the alerts an organization can hand to migrateAlert next.  Organization
\* 1: every name in folder f1, one name in folder f2, and one alert for each
\* way the pipeline can fail early.  Organization 2: names that organization
\* 1 has too, in the folder UID it uses too, and one failing alert.
RunInputs(org, id) ==
    IF org = 1
    THEN {Input(DashAlert(org, id, n, TRUE, DefaultSettings), "f1", CondOK(GoodQueries)) : n \in RunNames}
         \cup {Input(DashAlert(org, id, NameOf("a"), TRUE, DefaultSettings), "f2", CondOK(GoodQueries)),
               Input(DashAlert(org, id, NameOf("a"), FALSE, DefaultSettings), "f1", CondOK(GoodQueries)),
               Input(DashAlert(org, id, NameOf("a"), TRUE, DefaultSettings), "f1", CondFailed),
               Input(DashAlert(org, id, NameOf("a"), TRUE, DefaultSettings), "f1",
                     CondOK(<<[DatasourceUID |-> "ds1", Model |-> MalformedModel]>>))}
    ELSE {Input(DashAlert(org, id, n, TRUE, DefaultSettings), "f1", CondOK(GoodQueries)) :
                n \in {NameOf("a"), NameOf("A")}}
         \cup {Input(DashAlert(org, id, NameOf("a"), TRUE, DefaultSettings), "f1", CondFailed)}

FreshOrgMigration == [alertRuleTitleDedup |-> [f \in Folders |-> <<>>], silences |-> <<>>]

NoCall == [fn |-> "none", arg |-> 0]

\* a query runner as constructed: not active, no subscription, no width,
\* no data; 0 stands for undefined in _querySub, _containerWidth,
\* state.data and state.maxDataPoints
NewRunner(maxDataPoints, maxDataPointsFromWidth) ==
    [isActive |-> FALSE, timeRangeSub |-> FALSE, querySub |-> 0, containerWidth |-> 0,
     data |-> 0, maxDataPoints |-> maxDataPoints,
     maxDataPointsFromWidth |-> maxDataPointsFromWidth]

NoTasks == [awaiting |-> {}, subscribed |-> {}, timers |-> 0, nextRequestId |-> 1]

Init ==
    /\ caseInsensitive \in BOOLEAN
    /\ orgMigration = [o \in Orgs |-> FreshOrgMigration]
    /\ nextUID = 1
    /\ clock = 0
    /\ migrated = [o \in Orgs |-> <<>>]
    /\ call = NoCall
    /\ ret = <<>>
    /\ runner = NewRunner(0, FALSE)
    /\ tasks = NoTasks

AlertsDone == Len(migrated[1]) + Len(migrated[2])

\* a call of migrateAlert for org on the migration state om: one of its
\* outcomes becomes the state, and the call is recorded
migrateAlertCall(org, om, in) ==
    \E o \in migrateAlert(om, nextUID, clock, caseInsensitive, in) :
        /\ orgMigration' = [orgMigration EXCEPT ![omFor(org)] = o.om]
        /\ nextUID' = o.next
        /\ migrated' = [migrated EXCEPT ![org] =
                            Append(@, [in |-> in, err |-> o.err, rule |-> o.rule,
                                       channels |-> o.channels, logs |-> o.logs])]

\* one iteration of the run's loop for org: migrateAlert on the next alert.
\* The run is examined at one reading of the clock.
MigrateAlert(org, in) ==
    /\ AlertsDone < MaxAlerts
    /\ migrateAlertCall(org, orgMigration[omFor(org)], in)
    /\ UNCHANGED <<caseInsensitive, clock, call, ret, runner, tasks>>

Next ==
    \E org \in Orgs : \E in \in RunInputs(org, 10 * org + Len(migrated[org]) + 1) :
        MigrateAlert(org, in)

vars == <<caseInsensitive, orgMigration, nextUID, clock, migrated, call, ret, runner, tasks>>

Spec == Init /\ [][Next]_vars

----------------------------------------------------------------------------
(* One alert, migrated and then migrated again: the caller re-invokes the  *)
(* whole pipeline on the same alert, dashboard and folder with a fresh     *)
(* deduplicator, while the UID allocator and the clock go on.              *)

CPUName == <<"C", "P", "U", " ", ">", " ", "9", "0", "%">>

\* the notification targets [{uid:"abc"}, {id:7}, {}]
SomeNotifications ==
    <<[UID |-> "abc", ID |-> 0], [UID |-> "", ID |-> 7], [UID |-> "", ID |-> 0]>>

\* tag maps: empty, an ordinary tag, a tag with the key of the routing label
RuleTags ==
    {NoTags, [NoTags EXCEPT !["team"] = "ops"], [NoTags EXCEPT !["rule_uid"] = "legacy"]}

RuleSettings ==
    [NoDataState : {"", NoDataKeepState},
     ExecutionErrorState : {"", ExecutionErrorKeepState},
     AlertRuleTags : RuleTags,
     Notifications : {<<>>, SomeNotifications}]

RuleAlert(name, message, frequency, state, settingsValid, parsedSettings) ==
    [Id |-> 7, OrgId |-> 1, PanelId |-> 3, Name |-> name, Message |-> message,
     Frequency |-> frequency, For |-> 0, State |-> state,
     Settings |-> [valid |-> settingsValid, parsed |-> parsedSettings],
     ParsedSettings |-> parsedSettings]

\* the alerts of the one-alert specification: every combination of name,
\* message, frequency, state and settings, and one alert for each way the
\* pipeline can fail early
RuleInputs ==
    {Input(RuleAlert(name, message, frequency, state, TRUE, settings), "f1", CondOK(GoodQueries)) :
        name \in {NameOf("a"), CPUName}, message \in {"", "msg"}, frequency \in {5, 25},
        state \in {"ok", "paused", "Paused"}, settings \in RuleSettings}
    \cup {Input(RuleAlert(CPUName, "msg", 5, "paused", FALSE, DefaultSettings), "f1", CondOK(GoodQueries)),
          Input(RuleAlert(CPUName, "msg", 5, "paused", TRUE, DefaultSettings), "f1", CondFailed),
          Input(RuleAlert(CPUName, "msg", 5, "paused", TRUE, DefaultSettings), "f1",
                CondOK(<<[DatasourceUID |-> "ds1", Model |-> MalformedModel]>>))}

\* faulty variant: the retry goes on with the deduplicators of the first call
retryState_Stale(om) == om

\* the migration state a retry starts from: fresh deduplicators
retryState(om) == [om EXCEPT !.alertRuleTitleDedup = FreshOrgMigration.alertRuleTitleDedup]

InitRule ==
    /\ caseInsensitive \in BOOLEAN
    /\ orgMigration = [o \in Orgs |-> FreshOrgMigration]
    /\ nextUID = 1
    /\ clock = 0
    /\ migrated = [o \in Orgs |-> <<>>]
    /\ call = NoCall
    /\ ret = <<>>
    /\ runner = NewRunner(0, FALSE)
    /\ tasks = NoTasks

\* migrateAlert on the alert
FirstCall(in) ==
    /\ Len(migrated[1]) = 0
    /\ migrateAlertCall(1, orgMigration[omFor(1)], in)
    /\ UNCHANGED <<caseInsensitive, clock, call, ret, runner, tasks>>

\* migrateAlert again on the same alert, dashboard and folder
Retry ==
    /\ Len(migrated[1]) = 1
    /\ migrateAlertCall(1, retryState(orgMigration[omFor(1)]), migrated[1][1].in)
    /\ UNCHANGED <<caseInsensitive, clock, call, ret, runner, tasks>>

\* time passes
Tick ==
    /\ clock < MaxClock
    /\ clock' = clock + 1
    /\ UNCHANGED <<caseInsensitive, orgMigration, nextUID, migrated, call, ret, runner, tasks>>

NextRule ==
    \/ \E in \in RuleInputs : FirstCall(in)
    \/ Retry
    \/ Tick

SpecRule == InitRule /\ [][NextRule]_vars

----------------------------------------------------------------------------
(* Pure-function specification: Init draws a call, the action makes it. *)

InitFn ==
    /\ caseInsensitive = FALSE
    /\ orgMigration = [o \in Orgs |-> FreshOrgMigration]
    /\ nextUID = 1
    /\ clock = 0
    /\ migrated = [o \in Orgs |-> <<>>]
    /\ \/ call \in [fn : {"ruleAdjustInterval"}, arg : Frequencies]
       \/ call \in [fn : {"transNoData", "transExecErr"}, arg : LegacyStates]
       \/ call \in [fn : {"migrateAlertRuleQueries"}, arg : QueryLists]
       \/ call \in [fn : {"fixPrometheusBothTypeQuery"}, arg : FieldMaps]
       \/ call \in [fn : {"extractChannelIDs"},
                     arg : {[DefaultSettings EXCEPT !.Notifications = l] : l \in NotificationLists}]
    /\ ret = <<>>
    /\ runner = NewRunner(0, FALSE)
    /\ tasks = NoTasks

CallRuleAdjustInterval ==
    /\ call.fn = "ruleAdjustInterval"
    /\ Len(ret) = 0
    /\ ret' = <<ruleAdjustInterval(call.arg)>>
    /\ UNCHANGED <<call, caseInsensitive, orgMigration, nextUID, clock, migrated, runner, tasks>>

CallTransNoData ==
    /\ call.fn = "transNoData"
    /\ Len(ret) = 0
    /\ ret' = <<transNoData(call.arg)>>
    /\ UNCHANGED <<call, caseInsensitive, orgMigration, nextUID, clock, migrated, runner, tasks>>

CallTransExecErr ==
    /\ call.fn = "transExecErr"
    /\ Len(ret) = 0
    /\ ret' = <<transExecErr(call.arg)>>
    /\ UNCHANGED <<call, caseInsensitive, orgMigration, nextUID, clock, migrated, runner, tasks>>

CallMigrateAlertRuleQueries ==
    /\ call.fn = "migrateAlertRuleQueries"
    /\ Len(ret) = 0
    /\ ret' = <<migrateAlertRuleQueries(call.arg)>>
    /\ UNCHANGED <<call, caseInsensitive, orgMigration, nextUID, clock, migrated, runner, tasks>>

CallFixPrometheusBothTypeQuery ==
    /\ call.fn = "fixPrometheusBothTypeQuery"
    /\ Len(ret) = 0
    /\ ret' = <<fixPrometheusBothTypeQuery(call.arg)>>
    /\ UNCHANGED <<call, caseInsensitive, orgMigration, nextUID, clock, migrated, runner, tasks>>

CallExtractChannelIDs ==
    /\ call.fn = "extractChannelIDs"
    /\ Len(ret) = 0
    /\ ret' = <<extractChannelIDs(call.arg)>>
    /\ UNCHANGED <<call, caseInsensitive, orgMigration, nextUID, clock, migrated, runner, tasks>>

NextFn ==
    \/ CallRuleAdjustInterval
    \/ CallTransNoData
    \/ CallTransExecErr
    \/ CallMigrateAlertRuleQueries
    \/ CallFixPrometheusBothTypeQuery
    \/ CallExtractChannelIDs

SpecFn == InitFn /\ [][NextFn]_vars

----------------------------------------------------------------------------
(* The scene query runner (SceneQueryRunner).  A request is known by its   *)
(* requestId; state.data holds the id of the request whose result was set  *)
(* last.                                                                    *)

Widths == {0, 100}

\* SceneObjectBase.activate(): the object becomes active
superActivate(r) == [r EXCEPT !.isActive = TRUE]

\* SceneObjectBase.deactivate(): the object becomes inactive and the
\* subscriptions held in _subs are unsubscribed
superDeactivate(r) == [r EXCEPT !.isActive = FALSE, !.timeRangeSub = FALSE]

\* lines 68-81
shouldRunQueriesOnActivate(r) ==
    IF r.data # 0 THEN FALSE
    ELSE IF r.maxDataPoints = 0 /\ r.maxDataPointsFromWidth /\ r.containerWidth = 0 THEN FALSE
    ELSE TRUE

\* lines 152-172: the run makes its request with the next request id and
\* waits for its data source
runWithTimeRange(t) ==
    [t EXCEPT !.awaiting = @ \cup {t.nextRequestId}, !.nextRequestId = @ + 1]

\* lines 143-146
runQueries(t) == runWithTimeRange(t)

\* a further run can start
CanRun == tasks.nextRequestId <= MaxRequests

migrationIdle == UNCHANGED <<caseInsensitive, orgMigration, nextUID, clock, migrated, call, ret>>

InitRunner ==
    /\ caseInsensitive = FALSE
    /\ orgMigration = [o \in Orgs |-> FreshOrgMigration]
    /\ nextUID = 1
    /\ clock = 0
    /\ migrated = [o \in Orgs |-> <<>>]
    /\ call = NoCall
    /\ ret = <<>>
    /\ runner \in {NewRunner(m, w) : m \in {0, 500}, w \in BOOLEAN}
    /\ tasks = NoTasks

\* activate(): lines 50-66
Activate ==
    /\ ~runner.isActive
    /\ shouldRunQueriesOnActivate(runner) => CanRun
    /\ runner' = [superActivate(runner) EXCEPT !.timeRangeSub = TRUE]
    /\ tasks' = IF shouldRunQueriesOnActivate(runner) THEN runQueries(tasks) ELSE tasks
    /\ migrationIdle

\* deactivate(): lines 83-90
Deactivate ==
    /\ runner.isActive
    /\ runner' = [superDeactivate(runner) EXCEPT !.querySub = 0]
    /\ tasks' = IF runner.querySub # 0
                THEN [tasks EXCEPT !.subscribed = @ \ {runner.querySub}]
                ELSE tasks
    /\ migrationIdle

\* the time range of the scene changes: lines 56-60
TimeRangeChanged ==
    /\ runner.timeRangeSub
    /\ CanRun
    /\ tasks' = runWithTimeRange(tasks)
    /\ UNCHANGED runner
    /\ migrationIdle

\* a variable the queries refer to changes: lines 45-48
ReferencedVariableValueChanged ==
    /\ runner.isActive
    /\ CanRun
    /\ tasks' = runQueries(tasks)
    /\ UNCHANGED runner
    /\ migrationIdle

\* setContainerWidth(width), called from the render path: lines 123-141
SetContainerWidth(width) ==
    /\ runner.isActive
    /\ runner' = [runner EXCEPT !.containerWidth = width]
    /\ IF runner.containerWidth = 0 /\ width > 0
            /\ runner.maxDataPointsFromWidth /\ runner.maxDataPoints = 0
       THEN /\ tasks.timers < MaxTimers
            /\ tasks' = [tasks EXCEPT !.timers = @ + 1]
       ELSE UNCHANGED tasks
    /\ migrationIdle

\* the callback given to setTimeout runs: lines 131-135
TimeoutFires ==
    /\ tasks.timers > 0
    /\ (runner.isActive /\ runner.querySub = 0) => CanRun
    /\ tasks' = IF runner.isActive /\ runner.querySub = 0
                THEN [runQueries(tasks) EXCEPT !.timers = @ - 1]
                ELSE [tasks EXCEPT !.timers = @ - 1]
    /\ UNCHANGED runner
    /\ migrationIdle

\* getDataSource resolves for the run of request id, which goes on to
\* subscribe to runRequest: lines 172-198
DataSourceResolved(id) ==
    /\ id \in tasks.awaiting
    /\ tasks' = [tasks EXCEPT !.awaiting = @ \ {id}, !.subscribed = @ \cup {id}]
    /\ runner' = [runner EXCEPT !.querySub = id]
    /\ migrationIdle

\* getDataSource rejects for the run of request id: lines 199-201
DataSourceFailed(id) ==
    /\ id \in tasks.awaiting
    /\ tasks' = [tasks EXCEPT !.awaiting = @ \ {id}]
    /\ UNCHANGED runner
    /\ migrationIdle

\* the live subscription of request id delivers a result: lines 197, 204-206
OnDataReceived(id) ==
    /\ id \in tasks.subscribed
    /\ runner' = [runner EXCEPT !.data = id]
    /\ UNCHANGED tasks
    /\ migrationIdle

\* the observable of request id completes; _querySub keeps the closed
\* subscription
QueryCompleted(id) ==
    /\ id \in tasks.subscribed
    /\ tasks' = [tasks EXCEPT !.subscribed = @ \ {id}]
    /\ UNCHANGED runner
    /\ migrationIdle

NextRunner ==
    \/ Activate
    \/ Deactivate
    \/ TimeRangeChanged
    \/ ReferencedVariableValueChanged
    \/ \E width \in Widths : SetContainerWidth(width)
    \/ TimeoutFires
    \/ \E id \in 1..MaxRequests :
        \/ DataSourceResolved(id)
        \/ DataSourceFailed(id)
        \/ OnDataReceived(id)
        \/ QueryCompleted(id)

SpecRunner == InitRunner /\ [][NextRunner]_vars

Returned(fn) == call.fn = fn /\ Len(ret) = 1

----------------------------------------------------------------------------
(* Claims about the migration run.                                          *)

\* the calls of the run that returned a rule, as <<org, position>>
Succeeded == {c \in Orgs \X (1..MaxAlerts) : c[2] <= Len(migrated[c[1]]) /\ Len(migrated[c[1]][c[2]].rule) = 1}
\* the calls of the run that returned an error
FailedCalls == {c \in Orgs \X (1..MaxAlerts) : c[2] <= Len(migrated[c[1]]) /\ Len(migrated[c[1]][c[2]].err) > 0}

Entry(c) == migrated[c[1]][c[2]]
RuleOf(c) == migrated[c[1]][c[2]].rule[1]
LegacyName(c) == migrated[c[1]][c[2]].in.da.Name

SameFolder(c, d) ==
    /\ c # d
    /\ c[1] = d[1]
    /\ RuleOf(c).NamespaceUID = RuleOf(d).NamespaceUID

TitlesEqual(t, u) == IF caseInsensitive THEN ToLower(t) = ToLower(u) ELSE t = u

(* C1: after any sequence of migrateAlert calls, no two rules migrated     *)
(* into the same folder have titles that compare equal under the folder's  *)
(* case-sensitivity policy.                                                 *)
C1_TitlesUniqueInFolder ==
    \A c, d \in Succeeded :
        SameFolder(c, d) => ~TitlesEqual(RuleOf(c).Title, RuleOf(d).Title)

C1_Witness ==
    /\ caseInsensitive
    /\ \E c, d \in Succeeded :
        /\ SameFolder(c, d)
        /\ LegacyName(c) = NameOf("a")
        /\ LegacyName(d) = NameOf("A")
        /\ RuleOf(c).Title = NameOf("a")
        /\ RuleOf(d).Title # NameOf("A")

(* C2: every title assigned by makeAlertRule is no longer than the maximum *)
(* title length, also when deduplicate appended a suffix to a name that    *)
(* was already truncated to the maximum.                                    *)
C2_TitleWithinMaxLength ==
    \A c \in Succeeded : Len(RuleOf(c).Title) <= AlertDefinitionMaxTitleLength

C2_Witness ==
    \E c \in Succeeded :
        /\ Len(LegacyName(c)) > AlertDefinitionMaxTitleLength
        /\ RuleOf(c).Title # truncateRuleName(LegacyName(c))
        /\ Len(RuleOf(c).Title) = AlertDefinitionMaxTitleLength

(* C3: the title of an alert whose name is longer than the maximum has     *)
(* exactly the maximum length, and two distinct over-length names with the *)
(* same truncation, migrated into one folder, get distinct titles.         *)
C3_OverLengthNames ==
    /\ \A c \in Succeeded :
        Len(LegacyName(c)) > AlertDefinitionMaxTitleLength =>
            Len(RuleOf(c).Title) = AlertDefinitionMaxTitleLength
    /\ \A c, d \in Succeeded :
        (/\ SameFolder(c, d)
         /\ Len(LegacyName(c)) > AlertDefinitionMaxTitleLength
         /\ Len(LegacyName(d)) > AlertDefinitionMaxTitleLength
         /\ LegacyName(c) # LegacyName(d)
         /\ SubSeq(LegacyName(c), 1, AlertDefinitionMaxTitleLength)
                = SubSeq(LegacyName(d), 1, AlertDefinitionMaxTitleLength))
        => RuleOf(c).Title # RuleOf(d).Title

C3_Witness ==
    \E c, d \in Succeeded :
        /\ SameFolder(c, d)
        /\ LegacyName(c) = NameTooLong("a")
        /\ LegacyName(d) = NameTooLong("b")
        /\ Len(RuleOf(c).Title) = AlertDefinitionMaxTitleLength
        /\ Len(RuleOf(d).Title) = AlertDefinitionMaxTitleLength
        /\ RuleOf(c).Title # RuleOf(d).Title

(* C4: no two rules of the migration, across all folders and all           *)
(* organizations, carry the same UID.                                       *)
C4_UIDsGloballyUnique ==
    \A c, d \in Succeeded : c # d => RuleOf(c).UID # RuleOf(d).UID

C4_Witness ==
    \E c, d, e \in Succeeded :
        /\ c[1] # d[1]
        /\ e[1] = c[1]
        /\ RuleOf(c).NamespaceUID # RuleOf(e).NamespaceUID
        /\ RuleOf(c).UID # RuleOf(d).UID
        /\ RuleOf(c).UID # RuleOf(e).UID

\* what makes the pipeline fail on an alert by itself, whatever was
\* migrated before it
SettingsMalformed(e) == ~e.in.da.Settings.valid
ConditionFails(e) == e.in.cond.err
QueryMalformed(e) ==
    \E i \in 1..Len(e.in.cond.Data) :
        /\ e.in.cond.Data[i].DatasourceUID # expressionDatasourceUID
        /\ ~e.in.cond.Data[i].Model.valid
DeduplicationExhausted(e) ==
    e.err = <<"failed to make alert rule", "failed to deduplicate alert rule name">>

(* C5: each error is fatal only to the alert that triggered it: the call   *)
(* returns the error with no rule and no channel references, and an alert  *)
(* that follows a failed one is migrated unless it fails itself.           *)
C5_ErrorsFatalToOneAlert ==
    \A o \in Orgs : \A i \in 1..Len(migrated[o]) :
        LET e == migrated[o][i]
        IN  /\ Len(e.err) > 0 => (e.rule = <<>> /\ e.channels = <<>>)
            /\ Len(e.err) = 0 => Len(e.rule) = 1
            /\ SettingsMalformed(e) => e.err = <<"failed to parse settings">>
            /\ (~SettingsMalformed(e) /\ ConditionFails(e)) =>
                    e.err = <<"failed to transform conditions">>
            /\ (~SettingsMalformed(e) /\ ~ConditionFails(e) /\ QueryMalformed(e)) =>
                    e.err = <<"failed to make alert rule", "failed to migrate alert rule queries">>
            /\ (~SettingsMalformed(e) /\ ~ConditionFails(e) /\ ~QueryMalformed(e)) =>
                    (Len(e.err) = 0 \/ DeduplicationExhausted(e))

C5_Witness ==
    \E o \in Orgs :
        /\ Len(migrated[o]) = 3
        /\ Len(migrated[o][1].rule) = 1
        /\ QueryMalformed(migrated[o][2])
        /\ Len(migrated[o][2].err) > 0
        /\ Len(migrated[o][3].rule) = 1

C5_WitnessExhausted ==
    \E c \in FailedCalls : DeduplicationExhausted(Entry(c))

\* the titles and errors of a call's result
SameOutcome(o, e) ==
    /\ o.err = e.err
    /\ Len(o.rule) = Len(e.rule)
    /\ Len(o.rule) = 1 => o.rule[1].Title = e.rule[1].Title

\* the orgMigration an organization reaches when its first k calls are
\* made alone, with the results they had in this run
RECURSIVE AloneAfter(_, _)
AloneAfter(entries, k) ==
    IF k = 0 THEN FreshOrgMigration
    ELSE LET prev == AloneAfter(entries, k - 1)
             same == {o \in migrateAlert(prev, 1, clock, caseInsensitive, entries[k].in) :
                        SameOutcome(o, entries[k])}
         IN  IF same = {} THEN prev ELSE (CHOOSE o \in same : TRUE).om

\* every call's result is one the organization gets when migrated alone
AsWhenAlone(entries) ==
    \A k \in 1..Len(entries) :
        \E o \in migrateAlert(AloneAfter(entries, k - 1), 1, clock, caseInsensitive, entries[k].in) :
            SameOutcome(o, entries[k])

(* C6: when two organizations are migrated concurrently, in any            *)
(* interleaving of their migrateAlert calls, each gets the titles it gets  *)
(* when migrated alone, and titles stay unique within every folder.        *)
C6_CrossOrgParallelismSafe ==
    /\ \A o \in Orgs : AsWhenAlone(migrated[o])
    /\ \A c, d \in Succeeded :
        (c # d /\ c[1] = d[1] /\ RuleOf(c).NamespaceUID = RuleOf(d).NamespaceUID)
            => ~TitlesEqual(RuleOf(d).Title, RuleOf(c).Title)

C6_Witness ==
    /\ Len(migrated[1]) = 2 /\ Len(migrated[2]) = 1
    /\ \A c \in {<<1, 1>>, <<1, 2>>, <<2, 1>>} :
        /\ c \in Succeeded
        /\ LegacyName(c) = NameOf("a")
        /\ RuleOf(c).NamespaceUID = "f1"
    /\ RuleOf(<<1, 1>>).UID = 1
    /\ RuleOf(<<2, 1>>).UID = 2
    /\ RuleOf(<<1, 2>>).UID = 3
    /\ RuleOf(<<2, 1>>).Title = NameOf("a")
    /\ RuleOf(<<1, 2>>).Title # NameOf("a")

----------------------------------------------------------------------------
(* C7: for every legacy frequency, zero and negative included, the         *)
(* evaluation interval is a positive multiple of the base granularity 10:  *)
(* the frequency rounded down to a multiple of 10 when it is above 10, and *)
(* exactly 10 otherwise.                                                    *)
C7_IntervalPositiveMultiple ==
    Returned("ruleAdjustInterval") =>
        LET freq == call.arg
            interval == ret[1]
        IN  /\ interval > 0
            /\ \E k \in 1..MaxFreq : interval = 10 * k
            /\ freq > 10 => /\ interval <= freq
                            /\ freq < interval + 10
            /\ freq <= 10 => interval = 10

C7_Witness ==
    /\ Returned("ruleAdjustInterval")
    /\ call.arg = 0 - 7
    /\ ret[1] = 10

----------------------------------------------------------------------------
(* C8: both state translators are total and deterministic.  transNoData    *)
(* maps ok to OK, "" and no_data to NoData, alerting to Alerting,          *)
(* keep_state to NoData and anything else to NoData with a warning;        *)
(* transExecErr maps "" and alerting to Alerting, keep_state to Error, ok  *)
(* to OK and anything else to Error with a warning.  A warning is logged   *)
(* exactly when the input is outside the known set.                        *)
C8_StateTranslation ==
    /\ Returned("transNoData") =>
        LET s == call.arg
            r == ret[1]
        IN  /\ s = "ok" => r.state = "OK"
            /\ s \in {"", "no_data", "keep_state"} => r.state = "NoData"
            /\ s = "alerting" => r.state = "Alerting"
            /\ s \notin {"ok", "", "no_data", "alerting", "keep_state"} => r.state = "NoData"
            /\ r.warn <=> s \notin {"ok", "", "no_data", "alerting", "keep_state"}
    /\ Returned("transExecErr") =>
        LET s == call.arg
            r == ret[1]
        IN  /\ s \in {"", "alerting"} => r.state = "Alerting"
            /\ s = "keep_state" => r.state = "Error"
            /\ s = "ok" => r.state = "OK"
            /\ s \notin {"", "alerting", "keep_state", "ok"} => r.state = "Error"
            /\ r.warn <=> s \notin {"", "alerting", "keep_state", "ok"}

C8_Witness ==
    /\ Returned("transNoData")
    /\ call.arg = "unknown"
    /\ ret[1] = [state |-> "NoData", warn |-> TRUE]

----------------------------------------------------------------------------
(* Positions of the call's list that hold a non-expression query, when the *)
(* call returned a repaired list.                                           *)
RepairedPositions ==
    IF Returned("migrateAlertRuleQueries") /\ ~ret[1].err
    THEN {i \in 1..Len(call.arg) : call.arg[i].DatasourceUID # expressionDatasourceUID}
    ELSE {}

FieldIn(i, k) == call.arg[i].Model.fields[k]
FieldOut(i, k) == ret[1].data[i].Model.fields[k]

(* C9: a non-expression query with instant = true, range = true and        *)
(* datasource type "prometheus" comes out of migrateAlertRuleQueries with  *)
(* instant = false and range = true; a query with the same instant and     *)
(* range that is not of type prometheus keeps instant = true, range = true.*)
C9_PrometheusBothRepair ==
    \A i \in RepairedPositions :
        (FieldIn(i, "instant") = "true" /\ FieldIn(i, "range") = "true") =>
            IF FieldIn(i, "datasource") = "{type:prometheus}"
            THEN FieldOut(i, "instant") = "false" /\ FieldOut(i, "range") = "true"
            ELSE FieldOut(i, "instant") = "true" /\ FieldOut(i, "range") = "true"

C9_Witness ==
    \E i \in RepairedPositions :
        /\ FieldIn(i, "instant") = "true" /\ FieldIn(i, "range") = "true"
        /\ FieldIn(i, "datasource") = "{type:prometheus}"
        /\ FieldOut(i, "instant") = "false"
        /\ \E j \in RepairedPositions :
            /\ FieldIn(j, "instant") = "true" /\ FieldIn(j, "range") = "true"
            /\ FieldIn(j, "datasource") = "{type:graphite}"
            /\ FieldOut(j, "instant") = "true"

(* C10: for every non-expression query whose model has a targetFull field, *)
(* the repaired model has no targetFull and its target is the original     *)
(* targetFull; a model without targetFull keeps its target.                *)
C10_GraphiteRepair ==
    \A i \in RepairedPositions :
        IF FieldIn(i, TargetFullModelField) # Absent
        THEN /\ FieldOut(i, TargetFullModelField) = Absent
             /\ FieldOut(i, TargetModelField) = FieldIn(i, TargetFullModelField)
        ELSE FieldOut(i, TargetModelField) = FieldIn(i, TargetModelField)

C10_Witness ==
    \E i \in RepairedPositions :
        /\ FieldIn(i, TargetModelField) = "'x'"
        /\ FieldIn(i, TargetFullModelField) = "'y'"
        /\ FieldOut(i, TargetModelField) = "'y'"
        /\ FieldOut(i, TargetFullModelField) = Absent

----------------------------------------------------------------------------
(* C11: every query whose datasource UID is the expression sentinel passes *)
(* through migrateAlertRuleQueries unchanged, at the same position; its    *)
(* model is not parsed or rewritten, so hide, targetFull, instant and      *)
(* range stay as they were, and a model that is no JSON object is no error.*)
C11_ExpressionPassThrough ==
    Returned("migrateAlertRuleQueries") =>
        LET in == call.arg
            out == ret[1]
        IN  /\ ~out.err =>
                /\ Len(out.data) = Len(in)
                /\ \A i \in 1..Len(in) :
                    in[i].DatasourceUID = expressionDatasourceUID => out.data[i] = in[i]
            /\ (\A i \in 1..Len(in) :
                    in[i].DatasourceUID # expressionDatasourceUID => in[i].Model.valid)
                => ~out.err

C11_Witness ==
    /\ Returned("migrateAlertRuleQueries")
    /\ Len(call.arg) = 2
    /\ ~ret[1].err
    /\ call.arg[1].DatasourceUID = "ds1"
    /\ ret[1].data[1] # call.arg[1]
    /\ call.arg[2].DatasourceUID = expressionDatasourceUID
    /\ call.arg[2].Model.valid
    /\ call.arg[2].Model.fields["hide"] = "true"
    /\ call.arg[2].Model.fields["instant"] = "true"
    /\ call.arg[2].Model.fields[TargetFullModelField] = "'y'"
    /\ ret[1].data[2] = call.arg[2]

----------------------------------------------------------------------------
\* the positions of the target list whose target yields a channel reference
KeptTargets(targets) == {i \in 1..Len(targets) : targets[i].UID # "" \/ targets[i].ID > 0}

(* C12: extractChannelIDs returns, in the order of the target list, the    *)
(* UID of every target with a non-empty UID, otherwise the id of every     *)
(* target with a positive id, and drops the others; [{uid:"abc"}, {id:7},  *)
(* {}] yields ["abc", 7]; a target with both contributes only its UID.     *)
C12_ChannelExtraction ==
    Returned("extractChannelIDs") =>
        LET targets == call.arg.Notifications
            out == ret[1]
            kept == KeptTargets(targets)
        IN  /\ Len(out) = Cardinality(kept)
            /\ \A i \in kept :
                LET k == Cardinality({j \in kept : j <= i})
                IN  IF targets[i].UID # ""
                    THEN out[k] = [UID |-> targets[i].UID, ID |-> 0]
                    ELSE out[k] = [UID |-> "", ID |-> targets[i].ID]
            /\ targets = <<[UID |-> "abc", ID |-> 0], [UID |-> "", ID |-> 7], [UID |-> "", ID |-> 0]>>
                => out = <<[UID |-> "abc", ID |-> 0], [UID |-> "", ID |-> 7]>>

C12_Witness ==
    /\ Returned("extractChannelIDs")
    /\ call.arg.Notifications =
            <<[UID |-> "", ID |-> 0], [UID |-> "abc", ID |-> 7], [UID |-> "", ID |-> 7]>>
    /\ ret[1] = <<[UID |-> "abc", ID |-> 0], [UID |-> "", ID |-> 7]>>

----------------------------------------------------------------------------
\* the Prometheus repair was called on a map whose instant or range does
\* not parse as a boolean
ParseFails(queryData) ==
    \/ queryData["instant"] \notin {Absent, "true", "false", "null"}
    \/ queryData["range"] \notin {Absent, "true", "false", "null"}

\* the datasource type is known
TypeKnown(queryData) ==
    queryData["datasource"] \in {"{type:prometheus}", "{type:graphite}"}

(* C19 as stated: when instant or range fails to parse, or the datasource  *)
(* type cannot be determined, the query is left unmodified and a log entry *)
(* is written only when the datasource type is provably Prometheus.        *)
C19_Original ==
    Returned("fixPrometheusBothTypeQuery") =>
        ((ParseFails(call.arg) \/ ~TypeKnown(call.arg)) =>
            /\ ret[1].queryData = call.arg
            /\ (Len(ret[1].logs) > 0 => call.arg["datasource"] = "{type:prometheus}"))

(* C19 as amended: in those cases the query is left unmodified; when       *)
(* instant or range fails to parse a log entry is written exactly when the *)
(* datasource type is provably Prometheus; when both parse and the type    *)
(* cannot be determined, one entry is written exactly when instant and     *)
(* range are both true.                                                     *)
C19_UnparsedLeftUnmodified ==
    Returned("fixPrometheusBothTypeQuery") =>
        ((ParseFails(call.arg) \/ ~TypeKnown(call.arg)) =>
            /\ ret[1].queryData = call.arg
            /\ ParseFails(call.arg) =>
                (Len(ret[1].logs) > 0 <=> call.arg["datasource"] = "{type:prometheus}")
            /\ ~ParseFails(call.arg) =>
                (Len(ret[1].logs) > 0 <=>
                    (call.arg["instant"] = "true" /\ call.arg["range"] = "true")))

C19_Witness ==
    /\ Returned("fixPrometheusBothTypeQuery")
    /\ call.arg["instant"] = "true"
    /\ call.arg["range"] = "true"
    /\ call.arg["datasource"] = Absent
    /\ ret[1].queryData = call.arg
    /\ ret[1].logs = <<"info: unable to convert">>

----------------------------------------------------------------------------
(* C20: for every non-expression query with a well-formed model the        *)
(* repaired model has no hide field and every field other than hide,       *)
(* target, targetFull and instant has its input value; the output list has *)
(* as many queries as the input, in the same order.                        *)
C20_HideRemovedOthersKept ==
    (Returned("migrateAlertRuleQueries") /\ ~ret[1].err) =>
        /\ Len(ret[1].data) = Len(call.arg)
        /\ \A i \in 1..Len(call.arg) : ret[1].data[i].DatasourceUID = call.arg[i].DatasourceUID
        /\ \A i \in RepairedPositions :
            /\ ret[1].data[i].Model.valid
            /\ FieldOut(i, "hide") = Absent
            /\ \A k \in FieldNames \ {"hide", TargetModelField, TargetFullModelField, "instant"} :
                FieldOut(i, k) = FieldIn(i, k)

C20_Witness ==
    /\ RepairedPositions = {1, 2}
    /\ FieldIn(1, "hide") = "true"
    /\ FieldIn(2, "hide") = "true"
    /\ FieldIn(1, "instant") # FieldIn(2, "instant")
    /\ FieldOut(1, "hide") = Absent
    /\ FieldOut(2, "hide") = Absent
    /\ FieldOut(2, "instant") = FieldIn(2, "instant")

----------------------------------------------------------------------------
\* the names claimed in folder f of the organization's migration
ClaimedIn(org, f) ==
    LET entry == orgMigration[omFor(org)].alertRuleTitleDedup[f]
    IN  IF Len(entry) = 1 THEN entry[1].set ELSE {}

\* the calls for org that migrated a rule into folder f
SucceededIn(org, f) == {c \in Succeeded : c[1] = org /\ RuleOf(c).NamespaceUID = f}

\* the call for org made by the step, if it returned an error
FailedStep(org) ==
    /\ Len(migrated'[org]) = Len(migrated[org]) + 1
    /\ Len(migrated'[org][Len(migrated'[org])].err) > 0

(* C18: after any sequence of migrateAlert calls the names claimed in a    *)
(* folder's deduplicator are exactly the titles of the rules migrated into *)
(* that folder, one claim per rule, and a migrateAlert call that returns   *)
(* an error leaves every deduplicator's claimed-name set unchanged.        *)
C18_ClaimedAreMigratedTitles ==
    /\ [](\A org \in Orgs : \A f \in Folders :
            /\ ClaimedIn(org, f) = {RuleOf(c).Title : c \in SucceededIn(org, f)}
            /\ Cardinality(ClaimedIn(org, f)) = Cardinality(SucceededIn(org, f)))
    /\ [][\A org \in Orgs : FailedStep(org) =>
            \A o \in Orgs : \A f \in Folders : ClaimedIn(o, f)' = ClaimedIn(o, f)]_vars

C18_Witness ==
    /\ Cardinality(ClaimedIn(1, "f1")) = 2
    /\ Cardinality(SucceededIn(1, "f1")) = 2
    /\ Len(migrated[1]) = 3
    /\ Len(migrated[1][3].err) > 0
    /\ migrated[1][3].err = <<"failed to make alert rule", "failed to deduplicate alert rule name">>

----------------------------------------------------------------------------
\* the calls made for the one alert, and those that returned a rule
Calls == 1..Len(migrated[1])
RuleCalls == {k \in Calls : Len(migrated[1][k].rule) = 1}
AlertOf(k) == migrated[1][k].in.da
RuleAt(k) == migrated[1][k].rule[1]

(* C13: for every migrated rule, annotations["message"] is the legacy      *)
(* alert's message, the empty string included, and the dashboard-UID,      *)
(* panel-id and legacy-alert-id annotations are present, also when the     *)
(* settings' tag map is empty.                                             *)
C13_MessageAndReservedAnnotations ==
    \A k \in RuleCalls :
        /\ RuleAt(k).Annotations["message"] = AlertOf(k).Message
        /\ RuleAt(k).Annotations["__dashboardUid__"] = migrated[1][k].in.dash.UID
        /\ RuleAt(k).Annotations["__panelId__"] = ToString(AlertOf(k).PanelId)
        /\ RuleAt(k).Annotations["__alertId__"] = ToString(AlertOf(k).Id)
        /\ \A a \in {"message", "__dashboardUid__", "__panelId__", "__alertId__"} :
            RuleAt(k).Annotations[a] # Absent

C13_Witness ==
    \E k \in RuleCalls :
        /\ AlertOf(k).Message = ""
        /\ AlertOf(k).ParsedSettings.AlertRuleTags = NoTags
        /\ RuleAt(k).Annotations["message"] = ""
        /\ RuleAt(k).Annotations["__alertId__"] = "7"

(* C14: every migrated rule's label map has the routing label with the     *)
(* value derived from the rule's own UID, also when the tag map is empty   *)
(* and when a tag has the key of the routing label.                        *)
C14_RoutingLabelFromOwnUID ==
    \A k \in RuleCalls :
        LET l == getLabelForSilenceMatching(RuleAt(k).UID)
        IN  /\ RuleAt(k).Labels[l.n] = l.v
            /\ RuleAt(k).Labels[l.n] # Absent

C14_Witness ==
    \E j, k \in RuleCalls :
        /\ AlertOf(j).ParsedSettings.AlertRuleTags["rule_uid"] = "legacy"
        /\ AlertOf(k).ParsedSettings.AlertRuleTags["rule_uid"] = "legacy"
        /\ RuleAt(j).Labels["rule_uid"] = "1"
        /\ RuleAt(k).Labels["rule_uid"] = "2"

\* the log entries of call k
Logged(k, entry) == \E i \in 1..Len(migrated[1][k].logs) : migrated[1][k].logs[i] = entry

\* a silence of the kind was made for the rule of call k
Silenced(k, kind) ==
    \E i \in 1..Len(orgMigration[omFor(1)].silences) :
        orgMigration[omFor(1)].silences[i] = [kind |-> kind, rule_uid |-> RuleAt(k).UID]

(* C15: when making a silence fails, the call still returns the rule and   *)
(* no error, the rule's title stays claimed, and the other silence is      *)
(* still tried: where the legacy policy asks for it, it was made or its    *)
(* own failure was logged.                                                  *)
C15_SilenceFailureNotFatal ==
    \A k \in Calls :
        (Logged(k, "error: silence for Error") \/ Logged(k, "error: silence for NoData")) =>
            /\ migrated[1][k].err = <<>>
            /\ k \in RuleCalls
            /\ RuleAt(k).Title \in ClaimedIn(1, RuleAt(k).NamespaceUID)
            /\ AlertOf(k).ParsedSettings.NoDataState = NoDataKeepState =>
                (Silenced(k, "NoData") \/ Logged(k, "error: silence for NoData"))
            /\ AlertOf(k).ParsedSettings.ExecutionErrorState = ExecutionErrorKeepState =>
                (Silenced(k, "Error") \/ Logged(k, "error: silence for Error"))

C15_Witness ==
    \E k \in RuleCalls :
        /\ Logged(k, "error: silence for Error")
        /\ ~Logged(k, "error: silence for NoData")
        /\ Silenced(k, "NoData")
        /\ ~Silenced(k, "Error")
        /\ RuleAt(k).Title \in ClaimedIn(1, "f1")

\* a rule without what the UID allocator and the clock gave it
WithoutGenerated(ar) ==
    [ar EXCEPT !.UID = 0, !.Updated = 0, !.Labels = [@ EXCEPT !["rule_uid"] = ""]]

(* C16 as stated: migrateAlert invoked twice on the same alert, dashboard  *)
(* and folder, each time from a fresh deduplicator, yields the same rule   *)
(* and the same channel references both times.                             *)
C16_Original ==
    Len(migrated[1]) = 2 =>
        /\ migrated[1][1].rule = migrated[1][2].rule
        /\ migrated[1][1].channels = migrated[1][2].channels

(* C16 as amended: the two invocations return the same error or both none, *)
(* the same channel references, and rules equal in every field but the     *)
(* UID, the routing label derived from it and the Updated time: the UIDs   *)
(* differ, and the second time is not before the first.                    *)
C16_SameButGenerated ==
    Len(migrated[1]) = 2 =>
        /\ migrated[1][1].err = migrated[1][2].err
        /\ migrated[1][1].channels = migrated[1][2].channels
        /\ Len(migrated[1][1].rule) = Len(migrated[1][2].rule)
        /\ RuleCalls = {1, 2} =>
            /\ WithoutGenerated(RuleAt(1)) = WithoutGenerated(RuleAt(2))
            /\ RuleAt(1).UID # RuleAt(2).UID
            /\ RuleAt(1).Labels["rule_uid"] # RuleAt(2).Labels["rule_uid"]
            /\ RuleAt(1).Updated <= RuleAt(2).Updated

C16_Witness ==
    /\ RuleCalls = {1, 2}
    /\ migrated[1][1].in = migrated[1][2].in
    /\ RuleAt(1).Title = CPUName
    /\ RuleAt(2).Title = CPUName
    /\ migrated[1][1].channels = <<[UID |-> "abc", ID |-> 0], [UID |-> "", ID |-> 7]>>
    /\ migrated[1][2].channels = migrated[1][1].channels
    /\ RuleAt(1).UID = 1
    /\ RuleAt(2).UID = 2
    /\ RuleAt(1).Updated = 0
    /\ RuleAt(2).Updated = 1

(* C17: the alert named "CPU > 90%" with frequency 5, state "paused" and   *)
(* no-data policy "", migrated into a folder where the name is not         *)
(* claimed, gets the title "CPU > 90%", IntervalSeconds 10, IsPaused true  *)
(* and NoDataState NoData; IsPaused is true exactly when the legacy state  *)
(* is "paused".                                                             *)
C17_EndToEnd ==
    \A k \in RuleCalls :
        /\ RuleAt(k).IsPaused <=> (AlertOf(k).State = "paused")
        /\ (/\ AlertOf(k).Name = CPUName
            /\ AlertOf(k).Frequency = 5
            /\ AlertOf(k).State = "paused"
            /\ AlertOf(k).ParsedSettings.NoDataState = "")
            => /\ RuleAt(k).Title = CPUName
               /\ RuleAt(k).IntervalSeconds = 10
               /\ RuleAt(k).IsPaused
               /\ RuleAt(k).NoDataState = "NoData"
               /\ RuleAt(k).NamespaceUID = migrated[1][k].in.f.UID

C17_Witness ==
    \E k \in RuleCalls :
        /\ AlertOf(k).Name = CPUName
        /\ AlertOf(k).Frequency = 5
        /\ AlertOf(k).State = "paused"
        /\ AlertOf(k).ParsedSettings.NoDataState = ""
        /\ RuleAt(k).Title = CPUName
        /\ RuleAt(k).IntervalSeconds = 10
        /\ RuleAt(k).IsPaused
        /\ RuleAt(k).NoDataState = "NoData"
        /\ ClaimedIn(1, "f1") = {CPUName}

----------------------------------------------------------------------------
(* C21: after deactivate() no query subscription stays live and state.data *)
(* is no longer updated by query results, also when deactivate() happens   *)
(* while a run is still awaiting its data source and when the deferred run *)
(* scheduled by setContainerWidth fires after deactivation.                *)
C21_NothingLiveAfterDeactivate ==
    /\ [](~runner.isActive => tasks.subscribed = {})
    /\ [][~runner.isActive => runner'.data = runner.data]_vars

(* C22: the runner holds at most one live query subscription at any time,  *)
(* so state.data is never overwritten by results of an older request after *)
(* results of a newer one.                                                  *)
C22_AtMostOneLiveSubscription ==
    /\ [](Cardinality(tasks.subscribed) <= 1)
    /\ [][runner'.data >= runner.data]_vars

====
